---- MODULE Spec2Model ----
(***************************************************************************)
(* A model of fincast (src/fincast.py): BudgetCalculator.run simulating a  *)
(* set of BudgetItems day by day and writing a ledger of transactions.     *)
(*                                                                         *)
(* Conventions of the model                                                *)
(*   - money is an exact number of cents (the code's floats, without their *)
(*     rounding); an interest rate is a number of percent;                 *)
(*   - a date is a number of days since BaseDate, a Monday (2024-01-29);   *)
(*   - Python's Optional is a tuple: None is <<>>, a value v is <<v>>;     *)
(*   - a name is a string; its characters are given by Chars, because the  *)
(*     display form of a name is computed character by character.          *)
(***************************************************************************)
EXTENDS Integers, Sequences, FiniteSets, TLC

----------------------------------------------------------------------------
(* Optional values *)

None == <<>>

Some(v) == <<v>>

IsNone(o) == o = <<>>

Val(o) == o[1]

(* Python truthiness of an Optional[float]: None and 0.0 are false. *)
TruthyNum(o) == o # <<>> /\ o[1] # 0

----------------------------------------------------------------------------
(* The calendar: datetime.date restricted to the year of the run. *)

(* Date 0, a Monday: <<year, month, day>> *)
BaseDate == <<2024, 1, 29>>

(* Gregorian rule for the years 1901..2099 *)
IsLeap(y) == y % 4 = 0

MonthLen(y, m) ==
    IF m = 2 THEN (IF IsLeap(y) THEN 29 ELSE 28)
    ELSE IF m \in {4, 6, 9, 11} THEN 30 ELSE 31

YearLen(y) == IF IsLeap(y) THEN 366 ELSE 365

(* the number of days from January 1st of BaseDate's year to <<y, m, d>> *)
RECURSIVE DaysBeforeYear(_)
DaysBeforeYear(y) ==
    IF y = BaseDate[1] THEN 0
    ELSE IF y > BaseDate[1] THEN DaysBeforeYear(y - 1) + YearLen(y - 1)
    ELSE DaysBeforeYear(y + 1) - YearLen(y)

RECURSIVE DaysBeforeMonth(_, _)
DaysBeforeMonth(y, m) == IF m <= 1 THEN 0 ELSE MonthLen(y, m - 1) + DaysBeforeMonth(y, m - 1)

Ordinal(y, m, d) == DaysBeforeYear(y) + DaysBeforeMonth(y, m) + (d - 1)

(* datetime.date(year, month, day), as a number of days since BaseDate *)
date(year, month, day) ==
    Ordinal(year, month, day) - Ordinal(BaseDate[1], BaseDate[2], BaseDate[3])

(* <<year, month, day>> of the date n days after January 1st of year y, n >= 0 *)
RECURSIVE YmdFrom(_, _, _)
YmdFrom(y, m, n) ==
    IF n < MonthLen(y, m) THEN <<y, m, n + 1>>
    ELSE IF m = 12 THEN YmdFrom(y + 1, 1, n - MonthLen(y, m))
    ELSE YmdFrom(y, m + 1, n - MonthLen(y, m))

Ymd(d) == YmdFrom(BaseDate[1], 1, d + Ordinal(BaseDate[1], BaseDate[2], BaseDate[3]))

(* date.year, date.month and date.day of a date d >= 0 *)
YearOf(d) == Ymd(d)[1]

MonthOf(d) == Ymd(d)[2]

DayOf(d) == Ymd(d)[3]

(* date.weekday(): Monday is 0 *)
Weekday(d) == d % 7

Digit2(n) == IF n < 10 THEN "0" \o ToString(n) ELSE ToString(n)

(* cur_date.strftime("%Y-%m-%d") *)
DateStr(d) == ToString(YearOf(d)) \o "-" \o Digit2(MonthOf(d)) \o "-" \o Digit2(DayOf(d))

(* generate_date_range: the n-th date it yields, and how many it yields *)
RangeLen(start_date, end_date) == IF end_date > start_date THEN end_date - start_date ELSE 0

(* generate_date_range with the range closed: end_date is yielded too *)
GenerateDateRangeInclusive(start_date, end_date) ==
    [n \in 1..(RangeLen(start_date, end_date) + 1) |-> start_date + (n - 1)]

generate_date_range(start_date, end_date) ==
    [n \in 1..RangeLen(start_date, end_date) |-> start_date + (n - 1)]

(* generate_biweekly_dates: the dates start_date + 14k before end_date *)
generate_biweekly_dates(start_date, end_date) ==
    {start_date + n : n \in {k \in 0..(RangeLen(start_date, end_date) - 1) : k % 14 = 0}}

----------------------------------------------------------------------------
(* Names and their display form: item.name.replace("_", " ").title() *)

LowerCase == <<"a", "b", "c", "d", "e", "f", "g", "h", "i", "j", "k", "l", "m",
               "n", "o", "p", "q", "r", "s", "t", "u", "v", "w", "x", "y", "z">>

UpperCase == <<"A", "B", "C", "D", "E", "F", "G", "H", "I", "J", "K", "L", "M",
               "N", "O", "P", "Q", "R", "S", "T", "U", "V", "W", "X", "Y", "Z">>

IsLower(c) == \E i \in 1..Len(LowerCase) : LowerCase[i] = c

IsUpper(c) == \E i \in 1..Len(UpperCase) : UpperCase[i] = c

Upper(c) == IF IsLower(c) THEN UpperCase[CHOOSE i \in 1..Len(LowerCase) : LowerCase[i] = c] ELSE c

Lower(c) == IF IsUpper(c) THEN LowerCase[CHOOSE i \in 1..Len(UpperCase) : UpperCase[i] = c] ELSE c

(* The characters of the names the model uses. *)
Chars(name) ==
    CASE name = "salary"   -> <<"s", "a", "l", "a", "r", "y">>
      [] name = "rent"     -> <<"r", "e", "n", "t">>
      [] name = "car_loan" -> <<"c", "a", "r", "_", "l", "o", "a", "n">>
      [] name = "card"     -> <<"c", "a", "r", "d">>
      [] name = "extra"    -> <<"e", "x", "t", "r", "a">>
      [] name = "ghost"    -> <<"g", "h", "o", "s", "t">>
      [] OTHER             -> <<>>

(* str.replace("_", " ") *)
ReplaceUnderscore(cs) == [i \in 1..Len(cs) |-> IF cs[i] = "_" THEN " " ELSE cs[i]]

(* str.title(): a cased character is upper case after an uncased one (or at
   the start) and lower case after a cased one. *)
Title(cs) ==
    [i \in 1..Len(cs) |->
        IF i > 1 /\ (IsLower(cs[i - 1]) \/ IsUpper(cs[i - 1]))
        THEN Lower(cs[i])
        ELSE Upper(cs[i])]

RECURSIVE Join(_)
Join(cs) == IF cs = <<>> THEN "" ELSE cs[1] \o Join(Tail(cs))

DisplayName(name) == Join(Title(ReplaceUnderscore(Chars(name))))

----------------------------------------------------------------------------
(* f"{x:.2f}" of an amount of cents *)

Fmt2(c) ==
    LET a == IF c < 0 THEN 0 - c ELSE c
    IN (IF c < 0 THEN "-" ELSE "") \o ToString(a \div 100) \o "." \o Digit2(a % 100)

----------------------------------------------------------------------------
(* The interval dataclasses and BudgetItem *)

INCOME == "INCOME"

EXPENSE == "EXPENSE"

(* An interval is one record for the six dataclasses: kind is the class
   name, and a field a class does not have keeps its default. *)
Interval(kind, start_date, end_date) ==
    [kind |-> kind, start_date |-> start_date, end_date |-> end_date,
     date |-> date(2000, 1, 1), target |-> "",
     day |-> 1, day_of_week |-> 0, month |-> 1, dates |-> {}]

OnetimeInterval(start_date, end_date, d, target) ==
    [Interval("OnetimeInterval", start_date, end_date) EXCEPT !.date = d, !.target = target]

MonthlyInterval(start_date, end_date, day) ==
    [Interval("MonthlyInterval", start_date, end_date) EXCEPT !.day = day]

DailyInterval(start_date, end_date) == Interval("DailyInterval", start_date, end_date)

WeeklyInterval(start_date, end_date, day_of_week) ==
    [Interval("WeeklyInterval", start_date, end_date) EXCEPT !.day_of_week = day_of_week]

BiWeeklyInterval(start_date, end_date, dates) ==
    [Interval("BiWeeklyInterval", start_date, end_date) EXCEPT !.dates = dates]

YearlyInterval(start_date, end_date, month, day) ==
    [Interval("YearlyInterval", start_date, end_date) EXCEPT !.month = month, !.day = day]

BudgetItem(name, interval, type, amount, total_paid, interest, interest_paid, remaining_balance, move_payment_to) ==
    [name |-> name, interval |-> interval, type |-> type, amount |-> amount,
     total_paid |-> total_paid, interest |-> interest, interest_paid |-> interest_paid,
     remaining_balance |-> remaining_balance, move_payment_to |-> move_payment_to,
     done |-> FALSE]

(* v.get(key, default) of an item's mapping in the configuration document *)
Get(v, key, default) == IF key \in DOMAIN v THEN v[key] ELSE default

(* create_budget_object, for a mapping v whose dates parse and whose
   interval is one of the six literals.  start_date and end_date in v are
   <<year, month, day>>. *)
create_budget_object(name, v, global_start_date, global_end_date, budge_item_type) ==
    LET amount == Get(v, "amount", 0)
        interval == Get(v, "interval", "")
        remaining_balance ==
            IF "remaining_balance" \in DOMAIN v THEN Some(v["remaining_balance"]) ELSE None
        move_payment_to == Get(v, "move_payment_to", "")
        interest == Get(v, "interest", 0)
        interest_paid == Get(v, "interest_paid", 0)
        total_paid == Get(v, "total_paid", 0)
        day == Get(v, "day", 0)
        day_of_week == Get(v, "day_of_week", 0)
        month == Get(v, "month", 0)
        year == Get(v, "year", 0)
        target == Get(v, "target", "")
        start_date ==
            IF "start_date" \in DOMAIN v
            THEN date(v["start_date"][1], v["start_date"][2], v["start_date"][3])
            ELSE global_start_date
        end_date ==
            IF "end_date" \in DOMAIN v
            THEN date(v["end_date"][1], v["end_date"][2], v["end_date"][3])
            ELSE global_end_date
        interval_obj ==
            CASE interval = "yearly" ->
                    YearlyInterval(Some(start_date), Some(end_date), month, day)
              [] interval = "monthly" ->
                    MonthlyInterval(Some(start_date), Some(end_date), day)
              [] interval = "biweekly" ->
                    BiWeeklyInterval(Some(start_date), Some(end_date),
                                     generate_biweekly_dates(start_date, end_date))
              [] interval = "weekly" ->
                    WeeklyInterval(Some(start_date), Some(end_date), day_of_week)
              [] interval = "daily" ->
                    DailyInterval(Some(start_date), Some(end_date))
              [] interval = "once" ->
                    LET date_obj == date(year, month, day)
                    IN OnetimeInterval(Some(date_obj), Some(date_obj), date_obj, target)
    IN BudgetItem(name, interval_obj, budge_item_type, amount, total_paid, interest,
                  interest_paid, remaining_balance, move_payment_to)

----------------------------------------------------------------------------
(* BudgetCalculator.  Its methods are operators on the record m of the     *)
(* fields they read and write:                                             *)
(*   config           the items, in the dict's order                       *)
(*   account_balance                                                       *)
(*   csv_row          {} is <<>>; a number in a row is an Optional         *)
(*   csv_file         the rows written to csv_fd so far                    *)
(*   raised           the exception that left the method, "" if none       *)
(***************************************************************************)

(* Min without the cap: the first argument whatever the second *)
MinUncapped(a, b) == a

Min(a, b) == IF a < b THEN a ELSE b

(* self.config.get(name, None): the item's position, 0 for None *)
Lookup(config, name) ==
    IF \E i \in 1..Len(config) : config[i].name = name
    THEN CHOOSE i \in 1..Len(config) : config[i].name = name
    ELSE 0

EmptyDict == <<>>

BlankRow ==
    [date |-> "", name |-> "", amount |-> None, remaining |-> None,
     total_paid |-> None, total_interest |-> None, account_balance |-> None,
     interval |-> "", type |-> "", note |-> ""]

(* the row both calculate_ methods build from an item's fields *)
Row(item, amount, account_balance, note) ==
    [date |-> "", name |-> DisplayName(item.name), amount |-> Some(amount),
     remaining |-> item.remaining_balance, total_paid |-> Some(item.total_paid),
     total_interest |-> Some(item.interest_paid),
     account_balance |-> Some(account_balance),
     interval |-> item.interval.kind, type |-> item.type, note |-> note]

(* InterestOf with the sign of the interest wrong *)
InterestNegated(amount, rate) == 0 - ((amount * rate) \div 100)

(* amount * item.interest, the rate being a number of percent *)
InterestOf(amount, rate) == (amount * rate) \div 100

(* Credit with an account that cannot be overdrawn: the balance stops at 0 *)
CreditNoOverdraft(type, balance, amount) ==
    IF type = EXPENSE
    THEN (IF balance - amount < 0 THEN 0 ELSE balance - amount)
    ELSE balance + amount

(* Credit with the item's type ignored: every payment is taken off the
   account. *)
CreditAlwaysDebits(type, balance, amount) == balance - amount

(* The account_balance after an item of the given type is paid amount:
   lines 161, 162, 169 and 170 (and 195, 200, 219, 223) *)
Credit(type, balance, amount) ==
    IF type = EXPENSE THEN balance - amount ELSE balance + amount

(* The effective amount of a firing, lines 138 to 143 *)
EffectiveAmount(item) ==
    IF item.remaining_balance # None
    THEN Min(item.amount, Val(item.remaining_balance))
    ELSE item.amount

(* calculate_generic without its test "amount > 0", line 156 *)
CalculateGenericUnguarded(m, i) ==
    LET item == m.config[i]
        has_balance == item.remaining_balance # None
        amount == EffectiveAmount(item)
        final_balance == has_balance /\ amount < item.amount
        interest == IF item.interest > 0 THEN InterestOf(amount, item.interest) ELSE 0
        paid ==
            IF item.type = EXPENSE
            THEN [item EXCEPT
                    !.total_paid = @ + amount,
                    !.remaining_balance =
                        IF ~has_balance THEN None
                        ELSE IF final_balance THEN Some(0)
                        ELSE Some(Val(@) - (amount - interest)),
                    !.interest_paid = @ + interest]
            ELSE [item EXCEPT !.total_paid = @ + amount]
        balance == Credit(item.type, m.account_balance, amount)
    IN [m EXCEPT !.config[i] = paid,
                 !.account_balance = balance,
                 !.csv_row = Row(paid, amount, balance, "")]

calculate_generic(m, i) ==
    LET item == m.config[i]
        has_balance == item.remaining_balance # None
        amount == EffectiveAmount(item)
        final_balance == has_balance /\ amount < item.amount
        interest == IF item.interest > 0 THEN InterestOf(amount, item.interest) ELSE 0
        paid ==
            IF item.type = EXPENSE
            THEN [item EXCEPT
                    !.total_paid = @ + amount,
                    !.remaining_balance =
                        IF ~has_balance THEN None
                        ELSE IF final_balance THEN Some(0)
                        ELSE Some(Val(@) - (amount - interest)),
                    !.interest_paid = @ + interest]
            ELSE [item EXCEPT !.total_paid = @ + amount]
        balance == Credit(item.type, m.account_balance, amount)
    IN IF amount > 0
       THEN [m EXCEPT !.config[i] = paid,
                      !.account_balance = balance,
                      !.csv_row = Row(paid, amount, balance, "")]
       ELSE [m EXCEPT !.csv_row = BlankRow]

(* PayTarget with the payment capped at the target's remaining balance, as
   a generic firing caps it *)
PayTargetCapped(target, amount) ==
    LET capped ==
            IF TruthyNum(target.remaining_balance)
            THEN Min(amount, Val(target.remaining_balance))
            ELSE amount
        paid ==
            IF target.type = EXPENSE
            THEN [target EXCEPT
                    !.total_paid = @ + capped,
                    !.remaining_balance =
                        IF TruthyNum(@) THEN Some(Val(@) - capped) ELSE @]
            ELSE [target EXCEPT !.total_paid = @ + capped]
    IN IF TruthyNum(paid.remaining_balance) /\ Val(paid.remaining_balance) <= 0
       THEN [paid EXCEPT !.done = TRUE]
       ELSE paid

(* The target of a one-time payment after it, lines 194 to 204 *)
PayTarget(target, amount) ==
    LET paid ==
            IF target.type = EXPENSE
            THEN [target EXCEPT
                    !.total_paid = @ + amount,
                    !.remaining_balance =
                        IF TruthyNum(@) THEN Some(Val(@) - amount) ELSE @]
            ELSE [target EXCEPT !.total_paid = @ + amount]
    IN IF TruthyNum(paid.remaining_balance) /\ Val(paid.remaining_balance) <= 0
       THEN [paid EXCEPT !.done = TRUE]
       ELSE paid

calculate_onetime(m, i) ==
    LET item == m.config[i]
        t == Lookup(m.config, item.interval.target)
    IN IF item.interval.target # ""
       THEN IF t = 0
            THEN [m EXCEPT !.raised = "AssertionError"]
            ELSE
              LET closed == PayTarget(m.config[t], item.amount)
                  balance == Credit(m.config[t].type, m.account_balance, item.amount)
              IN [m EXCEPT !.config[t] = closed,
                           !.account_balance = balance,
                           !.csv_row = Row(closed, closed.amount, balance,
                                           "onetime payment: " \o item.name)]
       ELSE
         LET paid ==
                 IF item.type = EXPENSE
                 THEN [item EXCEPT !.total_paid = @ + item.amount,
                                   !.remaining_balance = Some(0)]
                 ELSE [item EXCEPT !.total_paid = @ + item.amount]
             balance == Credit(item.type, m.account_balance, item.amount)
         IN [m EXCEPT !.config[i] = paid,
                      !.account_balance = balance,
                      !.csv_row = Row(paid, paid.amount, balance, "onetime payment")]

(* date_in_range without its test of start_date *)
DateInRangeNoStart(item, cur_date) ==
    ~(item.interval.end_date # None /\ cur_date > Val(item.interval.end_date))

(* Optional dates are never falsy: "if item.interval.start_date" is a test
   for None. *)
date_in_range(item, cur_date) ==
    /\ ~(item.interval.start_date # None /\ cur_date < Val(item.interval.start_date))
    /\ ~(item.interval.end_date # None /\ cur_date > Val(item.interval.end_date))

(* "if self.csv_row[key]" and f"{...:.2f}" *)
FixField(o) == IF TruthyNum(o) THEN Fmt2(Val(o)) ELSE ""

maybe_write_csv_row(m, date_str) ==
    IF "name" \in DOMAIN m.csv_row /\ m.csv_row["name"] # ""
    THEN LET row ==
                 [m.csv_row EXCEPT
                    !["date"] = date_str,
                    !["amount"] = FixField(@),
                    !["remaining"] = FixField(@),
                    !["total_paid"] = FixField(@),
                    !["total_interest"] = FixField(@),
                    !["account_balance"] = FixField(@)]
         IN [m EXCEPT !.csv_row = row, !.csv_file = Append(@, row)]
    ELSE m

(* PaidOff with the comparison strict: a balance of exactly 0 is not paid off *)
PaidOffStrict(item) == item.remaining_balance # None /\ Val(item.remaining_balance) < 0

(* The payoff test of check_if_done, lines 339 and 346 to 349 *)
PaidOff(item) == item.remaining_balance # None /\ Val(item.remaining_balance) <= 0

(* check_if_done, lines 339 to 344: raises KeyError when csv_row is {} *)
close_balance(m, i) ==
    IF PaidOff(m.config[i])
    THEN IF "note" \notin DOMAIN m.csv_row
         THEN [m EXCEPT !.config[i].done = TRUE, !.raised = "KeyError"]
         ELSE [m EXCEPT !.config[i].done = TRUE,
                        !.csv_row["note"] =
                            IF @ # "" THEN @ \o " balance closed." ELSE " balance closed."]
    ELSE m

(* check_if_done, lines 345 to 366 *)
move_payment(m, i) ==
    LET item == m.config[i]
        d == Lookup(m.config, item.move_payment_to)
    IN IF item.type = EXPENSE /\ PaidOff(item) /\ item.move_payment_to # ""
       THEN IF d = 0
            THEN [m EXCEPT !.raised = "AssertionError"]
            ELSE IF /\ m.config[d].remaining_balance # None
                    /\ Val(m.config[d].remaining_balance) > 0
                 THEN [m EXCEPT
                         !.config[d].amount = @ + item.amount,
                         !.csv_row["note"] =
                             "balance closed. move_payment_to: " \o item.move_payment_to]
                 ELSE m
       ELSE m

check_if_done(m, i) ==
    IF m.config[i].done THEN m
    ELSE LET closed == close_balance(m, i)
         IN IF closed.raised # "" THEN closed ELSE move_payment(closed, i)

(* The recurrence tests of run, lines 309 to 325 *)
Matches(interval, cur_date) ==
    CASE interval.kind = "DailyInterval"    -> TRUE
      [] interval.kind = "WeeklyInterval"   -> Weekday(cur_date) = interval.day_of_week
      [] interval.kind = "BiWeeklyInterval" -> cur_date \in interval.dates
      [] interval.kind = "MonthlyInterval"  -> DayOf(cur_date) = interval.day
      [] interval.kind = "YearlyInterval"   ->
            DayOf(cur_date) = interval.day /\ MonthOf(cur_date) = interval.month

(* dump with the two sections taken the other way round: the expense
   items, then the income items *)
DumpExpensesFirst(income, expenses, global_start_date, global_end_date) ==
    [k \in 1..Len(expenses) |->
        create_budget_object(expenses[k].name, expenses[k].v,
                             global_start_date, global_end_date, EXPENSE)]
    \o
    [k \in 1..Len(income) |->
        create_budget_object(income[k].name, income[k].v,
                             global_start_date, global_end_date, INCOME)]

(* dump, lines 480 to 492: the income items, then the expense items, each
   in the order of its section.  An entry is [name, v]. *)
dump(income, expenses, global_start_date, global_end_date) ==
    [k \in 1..Len(income) |->
        create_budget_object(income[k].name, income[k].v,
                             global_start_date, global_end_date, INCOME)]
    \o
    [k \in 1..Len(expenses) |->
        create_budget_object(expenses[k].name, expenses[k].v,
                             global_start_date, global_end_date, EXPENSE)]

----------------------------------------------------------------------------
(* The state of a run *)

VARIABLES
    config,           \* self.config, as the sequence of its values
    account_balance,  \* self.account_balance
    csv_row,          \* self.csv_row
    csv_file,         \* the rows written through self.csv_writer
    start_date,       \* self.start_date
    end_date,         \* self.end_date
    cur_date,         \* run's loop variable: the day being processed
    pos,              \* run's inner loop: the position in config of the next item
    status,           \* "running", "finished" (csv_fd closed) or "raised"
    raised,           \* the exception that ended the run, "" if none
    opening_balance,  \* the account_balance the calculator was constructed with
    opening_config,   \* history: the config the calculator was constructed with
    days,             \* history: the days run's outer loop has yielded so far
    done_on           \* history: per item, the day its done flag became true

vars == <<config, account_balance, csv_row, csv_file, start_date, end_date,
          cur_date, pos, status, raised, opening_balance, opening_config, days,
          done_on>>

(* One pass of the body of run's inner loop, lines 298 to 331, for config[i] *)
run_item(m0, i, cur) ==
    LET m == [m0 EXCEPT !.csv_row = EmptyDict]
        item == m.config[i]
    IN IF item.done THEN m
       ELSE IF item.interval.end_date # None /\ cur > Val(item.interval.end_date)
       THEN [m EXCEPT !.config[i].done = TRUE]
       ELSE IF ~date_in_range(item, cur) THEN m
       ELSE
         LET calculated ==
                 IF item.interval.kind = "OnetimeInterval"
                 THEN LET paid == calculate_onetime(m, i)
                      IN IF paid.raised # "" THEN paid
                         ELSE [paid EXCEPT !.config[i].done = TRUE]
                 ELSE IF Matches(item.interval, cur) THEN calculate_generic(m, i)
                 ELSE m
             checked == IF calculated.raised # "" THEN calculated
                        ELSE check_if_done(calculated, i)
         IN IF checked.raised # "" THEN checked
            ELSE maybe_write_csv_row(checked, DateStr(cur))

(* The calculator's fields as the record the methods work on *)
Self ==
    [config |-> config, account_balance |-> account_balance, csv_row |-> csv_row,
     csv_file |-> csv_file, raised |-> ""]

(* cur_date is one of the dates of run's outer loop, line 295 *)
InDateRange ==
    \E n \in DOMAIN generate_date_range(start_date, end_date) :
        generate_date_range(start_date, end_date)[n] = cur_date

Running == status = "running" /\ InDateRange

Item == config[pos]

(* The fields after a pass m of the loop body, and the loops' next position;
   an exception leaves run with the fields as they are. *)
Commit(m) ==
    /\ config' = m.config
    /\ account_balance' = m.account_balance
    /\ csv_row' = m.csv_row
    /\ csv_file' = m.csv_file
    /\ raised' = m.raised
    /\ status' = IF m.raised # "" THEN "raised" ELSE status
    /\ IF m.raised # "" THEN UNCHANGED <<cur_date, pos>>
       ELSE IF pos < Len(config) THEN pos' = pos + 1 /\ cur_date' = cur_date
       ELSE pos' = 1 /\ cur_date' = cur_date + 1
    /\ done_on' = [j \in 1..Len(config) |->
                      IF ~config[j].done /\ m.config[j].done THEN Some(cur_date)
                      ELSE done_on[j]]
    /\ days' = IF pos = 1 THEN Append(days, cur_date) ELSE days
    /\ UNCHANGED <<start_date, end_date, opening_balance, opening_config>>

Expired(item, cur) == item.interval.end_date # None /\ cur > Val(item.interval.end_date)

(* line 299: the item is done *)
SkipDone ==
    /\ Running
    /\ Item.done
    /\ Commit(run_item(Self, pos, cur_date))

(* lines 301 to 303: the item's end_date has passed *)
ExpireItem ==
    /\ Running
    /\ ~Item.done
    /\ Expired(Item, cur_date)
    /\ Commit(run_item(Self, pos, cur_date))

(* lines 304 and 305: the day is before the item's start_date *)
SkipOutOfRange ==
    /\ Running
    /\ ~Item.done
    /\ ~Expired(Item, cur_date)
    /\ ~date_in_range(Item, cur_date)
    /\ Commit(run_item(Self, pos, cur_date))

(* lines 306 to 308, 330 and 331: a one-time item *)
FireOnetime ==
    /\ Running
    /\ ~Item.done
    /\ ~Expired(Item, cur_date)
    /\ date_in_range(Item, cur_date)
    /\ Item.interval.kind = "OnetimeInterval"
    /\ Commit(run_item(Self, pos, cur_date))

(* lines 309 to 331: a recurring item on a day its interval matches *)
FireRecurring ==
    /\ Running
    /\ ~Item.done
    /\ ~Expired(Item, cur_date)
    /\ date_in_range(Item, cur_date)
    /\ Item.interval.kind # "OnetimeInterval"
    /\ Matches(Item.interval, cur_date)
    /\ Commit(run_item(Self, pos, cur_date))

(* lines 309 to 331: a recurring item on a day its interval does not match *)
PassRecurring ==
    /\ Running
    /\ ~Item.done
    /\ ~Expired(Item, cur_date)
    /\ date_in_range(Item, cur_date)
    /\ Item.interval.kind # "OnetimeInterval"
    /\ ~Matches(Item.interval, cur_date)
    /\ Commit(run_item(Self, pos, cur_date))

(* lines 333 and 334: the date range is exhausted *)
Finish ==
    /\ status = "running"
    /\ ~InDateRange
    /\ status' = "finished"
    /\ UNCHANGED <<config, account_balance, csv_row, csv_file, start_date, end_date,
                   cur_date, pos, raised, opening_balance, opening_config, days,
                   done_on>>

Next ==
    \/ SkipDone
    \/ ExpireItem
    \/ SkipOutOfRange
    \/ FireOnetime
    \/ FireRecurring
    \/ PassRecurring
    \/ Finish

----------------------------------------------------------------------------
(* The configurations a run starts from *)

(* The run processes the days 0 .. MaxDays - 1: 2024-01-29 (a Monday) on. *)
MaxDays == 9

Amounts == {0, 400, 800}

Balances == {0, 400, 1200}

Rates == {0, 50}

OpeningBalances == {800}

(* A mapping of the configuration document is put together from fragments:
   NoKey leaves a key out, Key(k, S) gives it one of the values of S. *)
NoKey == {<<>>}

Key(k, S) == {k :> x : x \in S}

Daily == {[interval |-> "daily"]}

Weekly == {[interval |-> "weekly", day_of_week |-> 1]}

Monthly == {[interval |-> "monthly", day |-> 1]}

Yearly == {[interval |-> "yearly", month |-> 2, day |-> 1]}

BiWeekly == {[interval |-> "biweekly"]}

Once == {[interval |-> "once", year |-> 2024, month |-> 1, day |-> 30],
         [interval |-> "once", year |-> 2024, month |-> 2, day |-> 2]}

OwnBounds == NoKey \cup {[start_date |-> <<2024, 1, 30>>, end_date |-> <<2024, 2, 2>>]}

Entry(name, v) == [name |-> name, v |-> v]

(* one expense, of every shape *)
WideInputs ==
    {r @@ b @@ a @@ i @@ rb @@ mv :
        r \in Daily \cup Weekly \cup Monthly \cup Yearly \cup BiWeekly,
        b \in OwnBounds,
        a \in Key("amount", Amounts),
        i \in NoKey \cup Key("interest", Rates \ {0}),
        rb \in NoKey \cup Key("remaining_balance", Balances),
        mv \in NoKey \cup Key("move_payment_to", {"ghost", "rent"})}
    \cup
    {r @@ a @@ rb @@ t :
        r \in Once,
        a \in Key("amount", Amounts),
        rb \in NoKey \cup Key("remaining_balance", {400}),
        t \in NoKey \cup Key("target", {"ghost", "rent"})}

(* a one-time payment with a target *)
OnceActors(other) ==
    {r @@ a @@ t :
        r \in Once,
        a \in Key("amount", Amounts),
        t \in Key("target", {other, "ghost"})}

(* a loan whose payment moves on to another item once it is paid off *)
LoanActors(other) ==
    {r @@ a @@ i @@ rb @@ mv :
        r \in Daily \cup Weekly,
        a \in Key("amount", Amounts \ {0}),
        i \in NoKey \cup Key("interest", Rates \ {0}),
        rb \in Key("remaining_balance", Balances),
        mv \in Key("move_payment_to", {other, "ghost"})}

(* an item another item names *)
SubjectInputs(bounds) ==
    {r @@ b @@ a @@ i @@ rb :
        r \in Daily \cup Weekly,
        b \in bounds,
        a \in Key("amount", {0, 400}),
        i \in NoKey \cup Key("interest", Rates \ {0}),
        rb \in NoKey \cup Key("remaining_balance", Balances)}

IncomeInputs ==
    {r @@ a @@ rb :
        r \in Daily \cup Weekly,
        a \in Key("amount", {0, 400}),
        rb \in NoKey \cup Key("remaining_balance", {0, 400})}

Permutations3(a, b, c) ==
    {<<a, b, c>>, <<a, c, b>>, <<b, a, c>>, <<b, c, a>>, <<c, a, b>>, <<c, b, a>>}

BothOrders(a, b) == {<<a, b>>, <<b, a>>}

(* the income and expenses sections of the configuration documents *)
Docs ==
    {[income |-> <<>>, expenses |-> <<Entry("rent", v)>>] : v \in WideInputs}
    \cup
    {[income |-> <<>>, expenses |-> e] :
        e \in UNION {BothOrders(Entry("extra", a), Entry("card", s)) :
                        a \in OnceActors("card"), s \in SubjectInputs(OwnBounds)}}
    \cup
    {[income |-> <<>>, expenses |-> e] :
        e \in UNION {BothOrders(Entry("car_loan", a), Entry("card", s)) :
                        a \in LoanActors("card"), s \in SubjectInputs(NoKey)}}
    \cup
    {[income |-> <<Entry("salary", s)>>, expenses |-> <<Entry("extra", a)>>] :
        s \in IncomeInputs, a \in OnceActors("salary") \cup Daily}
    \cup
    {[income |-> <<Entry("salary", a)>>, expenses |-> <<Entry("card", s)>>] :
        a \in {x \in OnceActors("card") : x["target"] = "card"},
        s \in {x \in SubjectInputs(NoKey) : "interest" \notin DOMAIN x}}
    \cup
    {[income |-> <<Entry("salary", i)>>, expenses |-> e] :
        i \in {x \in IncomeInputs : "remaining_balance" \notin DOMAIN x},
        e \in UNION {BothOrders(Entry("extra", a), Entry("card", s)) :
                        a \in {x \in OnceActors("card") : x["target"] = "card"},
                        s \in {x \in SubjectInputs(NoKey) : "interest" \notin DOMAIN x}}}
    \cup
    {[income |-> <<>>, expenses |-> e] :
        e \in UNION {BothOrders(Entry("extra", o), Entry("car_loan", t)) :
                o \in {x \in OnceActors("car_loan") : x["target"] = "car_loan"},
                t \in {x \in LoanActors("card") :
                          /\ "interest" \notin DOMAIN x
                          /\ x["move_payment_to"] = "ghost"}}}
    \cup
    {[income |-> <<>>, expenses |-> e] :
        e \in UNION {Permutations3(Entry("extra", o), Entry("car_loan", t), Entry("card", b)) :
                o \in {x \in OnceActors("car_loan") : x["target"] = "car_loan"},
                t \in {x \in LoanActors("card") :
                          /\ "interest" \notin DOMAIN x
                          /\ x["amount"] = 400
                          /\ x["remaining_balance"] = 400
                          /\ x["move_payment_to"] = "card"},
                b \in {x \in SubjectInputs(NoKey) :
                          /\ x["interval"] = "daily"
                          /\ "interest" \notin DOMAIN x}}}

(* the (start_date, end_date) of the runs: the days 0 .. MaxDays - 1, and for
   a single item an empty and a reversed range too *)
Ranges(doc) ==
    {<<0, MaxDays>>}
    \cup (IF Len(doc.income) + Len(doc.expenses) = 1 THEN {<<2, 2>>, <<3, 1>>} ELSE {})

(* Items a caller of BudgetCalculator builds itself: a OnetimeInterval
   whose start_date and end_date are left unset. *)
UnboundedOnetime(name, type, amount, d, target) ==
    BudgetItem(name, OnetimeInterval(None, None, d, target), type, amount, 0, 0, 0, None, "")

ApiOnetimes(targets) ==
    {UnboundedOnetime("extra", type, a, d, t) :
        type \in {INCOME, EXPENSE}, a \in Amounts \ {0},
        d \in {date(2000, 1, 1), date(2024, 1, 31)}, t \in targets}

(* Their order is the order dump gives a config: an INCOME item comes
   before the EXPENSE items. *)
ApiConfigs ==
    {<<o>> : o \in ApiOnetimes({""})}
    \cup
    UNION {IF o.type = INCOME THEN {<<o, s>>} ELSE BothOrders(o, s) :
        o \in ApiOnetimes({"", "card"}),
        s \in {create_budget_object("card", v, 0, MaxDays, EXPENSE) :
                  v \in {x \in SubjectInputs(NoKey) : "interest" \notin DOMAIN x}}}

InitWith(c, balance, first, last) ==
    /\ config = c
    /\ account_balance = balance
    /\ csv_row = EmptyDict
    /\ csv_file = <<>>
    /\ start_date = first
    /\ end_date = last
    /\ cur_date = first
    /\ pos = 1
    /\ status = "running"
    /\ raised = ""
    /\ opening_balance = balance
    /\ opening_config = c
    /\ days = <<>>
    /\ done_on = [j \in 1..Len(c) |-> None]

Init ==
    \/ \E doc \in Docs : \E r \in Ranges(doc) : \E balance \in OpeningBalances :
          InitWith(dump(doc.income, doc.expenses, r[1], r[2]), balance, r[1], r[2])
    \/ \E c \in ApiConfigs : \E balance \in OpeningBalances :
          InitWith(c, balance, 0, MaxDays)

Spec == Init /\ [][Next]_vars

----------------------------------------------------------------------------
(* Properties *)

RECURSIVE SumPaid(_, _)
SumPaid(items, type) ==
    IF items = <<>> THEN 0
    ELSE (IF items[1].type = type THEN items[1].total_paid ELSE 0) + SumPaid(Tail(items), type)

Rows == {csv_file[k] : k \in 1..Len(csv_file)}

(* The money of the model is exact: no interest is a fraction of a cent. *)
InterestIsExact ==
    \A j \in 1..Len(config) :
        (EffectiveAmount(config[j]) * config[j].interest) % 100 = 0

(* C1: balance conservation.  At every point of a run (after the processing
   of any item on any day, whatever it did) account_balance is the opening
   balance plus the total_paid of the INCOME items minus the total_paid of
   the EXPENSE items; every item starts with total_paid = 0. *)
BalanceConservation ==
    account_balance = opening_balance + SumPaid(config, INCOME) - SumPaid(config, EXPENSE)

(* C1's case: a run that is over in which an INCOME item and an EXPENSE
   item were paid, a one-time payment reached its target and a recurring
   item fired. *)
BalanceConservationWitness ==
    /\ status = "finished"
    /\ SumPaid(config, INCOME) > 0
    /\ SumPaid(config, EXPENSE) > 0
    /\ account_balance # opening_balance
    /\ \E r \in Rows : r.note = "onetime payment: extra" /\ r.name = "Card"
    /\ \E r \in Rows : r.note = "" /\ r.name = "Card"

(* The step is a pass of run's loop body for config[pos] on cur_date that
   did not raise. *)
Pass == status = "running" /\ cur_date < end_date /\ status' = "running"

(* The pass is a generic firing of config[pos]: the item is live, the day
   is within its bounds and its recurrence matches. *)
GenericFiring ==
    /\ Pass
    /\ ~config[pos].done
    /\ config[pos].interval.kind # "OnetimeInterval"
    /\ (config[pos].interval.start_date # None => cur_date >= Val(config[pos].interval.start_date))
    /\ (config[pos].interval.end_date # None => cur_date <= Val(config[pos].interval.end_date))
    /\ Matches(config[pos].interval, cur_date)

(* C2: non-negative remaining balance.  Every item that has a
   remaining_balance (which starts >= 0) has it >= 0 after every step of the
   run, a generic firing or a targeted one-time payment, and exactly 0 after
   its final payment (a generic firing whose amount the balance capped). *)
RemainingNeverNegative ==
    [][/\ \A j \in 1..Len(config) :
            config'[j].remaining_balance # None => Val(config'[j].remaining_balance) >= 0
       /\ (/\ GenericFiring
           /\ config[pos].type = EXPENSE
           /\ config[pos].remaining_balance # None
           /\ Val(config[pos].remaining_balance) > 0
           /\ Val(config[pos].remaining_balance) < config[pos].amount)
          => config'[pos].remaining_balance = Some(0)]_vars

(* the day of a row of the ledger *)
RowDay(r) == CHOOSE d \in 0..(MaxDays + 1) : DateStr(d) = r.date

(* C3: done monotonicity of the ledger.  Once an item is done, no row
   written for a later date carries its name, the rows of a one-time item
   whose target it is included. *)
NoRowAfterDone ==
    \A j \in 1..Len(config) : \A r \in Rows :
        (done_on[j] # None /\ r.name = DisplayName(config[j].name))
            => RowDay(r) <= Val(done_on[j])

(* C4: total_paid and interest_paid of every item never decrease, whatever
   the step (amounts and interest rates are >= 0). *)
PaidNeverDecreases ==
    [][\A j \in 1..Len(config) :
            /\ config'[j].total_paid >= config[j].total_paid
            /\ config'[j].interest_paid >= config[j].interest_paid]_vars

(* C4's case: an item that paid interest on its own firings and received a
   targeted one-time payment, next to an untargeted one-time payment. *)
PaidNeverDecreasesWitness ==
    /\ \E j \in 1..Len(config) :
          /\ config[j].interest_paid > 0
          /\ config[j].total_paid > config[j].interest_paid
          /\ \E r \in Rows : r.name = DisplayName(config[j].name) /\ r.note = "onetime payment: extra"
          /\ \E r \in Rows : r.name = DisplayName(config[j].name) /\ r.note = ""

(* C5: payoff chaining.  When a generic firing of the EXPENSE item A leaves
   A.remaining_balance <= 0 and A.move_payment_to names another item B, A is
   done after the step, and B.amount has grown by A.amount if B has a
   remaining_balance > 0 and is unchanged otherwise.  No step lowers an
   amount, and an amount grows only in the step in which the item that
   names it goes from live to done, by that item's amount: once per source,
   since a done item stays done. *)
PayoffChaining ==
    [][/\ \A b \in 1..Len(config) :
            (/\ GenericFiring
             /\ b # pos
             /\ config[pos].type = EXPENSE
             /\ config'[pos].remaining_balance # None
             /\ Val(config'[pos].remaining_balance) <= 0
             /\ config[pos].move_payment_to = config[b].name)
            => /\ config'[pos].done
               /\ config'[b].amount =
                    IF config[b].remaining_balance # None /\ Val(config[b].remaining_balance) > 0
                    THEN config[b].amount + config[pos].amount
                    ELSE config[b].amount
       /\ \A b \in 1..Len(config) :
            /\ config'[b].amount >= config[b].amount
            /\ config[b].done => config'[b].done
            /\ config'[b].amount # config[b].amount
               => /\ ~config[pos].done /\ config'[pos].done
                  /\ config[pos].move_payment_to = config[b].name
                  /\ config'[b].amount = config[b].amount + config[pos].amount]_vars

(* C5's case: car_loan was paid off and moved its payment to card, and a
   later firing of card paid the increased amount (card is configured with
   an amount of at most 4.00). *)
PayoffChainingWitness ==
    \E k1, k2 \in 1..Len(csv_file) :
        /\ k1 < k2
        /\ csv_file[k1].name = "Car Loan"
        /\ csv_file[k1].note = "balance closed. move_payment_to: card"
        /\ csv_file[k2].name = "Card"
        /\ csv_file[k2].note = ""
        /\ csv_file[k2].amount = "8.00"

(* The pass is the firing of the one-time item config[pos]: the item is
   live and the day is within its bounds. *)
OnetimeFiring ==
    /\ status = "running" /\ cur_date < end_date
    /\ ~config[pos].done
    /\ config[pos].interval.kind = "OnetimeInterval"
    /\ (config[pos].interval.start_date # None => cur_date >= Val(config[pos].interval.start_date))
    /\ (config[pos].interval.end_date # None => cur_date <= Val(config[pos].interval.end_date))

(* C6: targeted one-time payment.  When a one-time item O fires whose target
   names another item T, an EXPENSE with a remaining_balance > 0, then
   T.remaining_balance falls by exactly O.amount (no cap, no interest),
   T.total_paid rises by O.amount, T.interest_paid and T.amount are
   unchanged, O.total_paid and O.remaining_balance are unchanged, and one row
   is written: it carries T's name and a note naming O. *)
TargetedPayment ==
    [][\A t \in 1..Len(config) :
            (/\ OnetimeFiring
             /\ t # pos
             /\ config[pos].interval.target = config[t].name
             /\ config[t].type = EXPENSE
             /\ config[t].remaining_balance # None
             /\ Val(config[t].remaining_balance) > 0)
            => /\ status' = "running"
               /\ config'[t].remaining_balance =
                    Some(Val(config[t].remaining_balance) - config[pos].amount)
               /\ config'[t].total_paid = config[t].total_paid + config[pos].amount
               /\ config'[t].interest_paid = config[t].interest_paid
               /\ config'[t].amount = config[t].amount
               /\ config'[pos].total_paid = config[pos].total_paid
               /\ config'[pos].remaining_balance = config[pos].remaining_balance
               /\ Len(csv_file') = Len(csv_file) + 1
               /\ SubSeq(csv_file', 1, Len(csv_file)) = csv_file
               /\ csv_file'[Len(csv_file')].name = DisplayName(config[t].name)
               /\ csv_file'[Len(csv_file')].note = "onetime payment: " \o config[pos].name
               /\ csv_file'[Len(csv_file')].date = DateStr(cur_date)]_vars

(* C6's case: the one-time item extra paid 8.00 to the loan card, an EXPENSE
   that charges interest, and left it a remaining balance of 4.00. *)
TargetedPaymentWitness ==
    /\ \E j \in 1..Len(config) : config[j].name = "extra" /\ config[j].amount = 800
    /\ \E j \in 1..Len(config) : config[j].name = "card" /\ config[j].interest > 0
    /\ \E r \in Rows :
          /\ r.name = "Card"
          /\ r.type = EXPENSE
          /\ r.note = "onetime payment: extra"
          /\ r.remaining = "4.00"

(* C7: a one-time item fires only on the day equal to its interval.date,
   whatever its start_date and end_date (unset included), and is done right
   after the firing; in a run over a range that contains its date it has
   fired, once, by the end. *)
OnetimeFiresOnItsDate ==
    [][/\ OnetimeFiring
          => /\ cur_date = config[pos].interval.date
             /\ (status' = "running" => config'[pos].done)
       /\ status' = "finished"
          => \A j \in 1..Len(config) :
                (/\ config[j].interval.kind = "OnetimeInterval"
                 /\ start_date <= config[j].interval.date
                 /\ config[j].interval.date < end_date)
                => done_on'[j] = Some(config[j].interval.date)]_vars

(* the day lies before the item's start_date, after its end_date *)
Early(item, d) == item.interval.start_date # None /\ d < Val(item.interval.start_date)

Late(item, d) == item.interval.end_date # None /\ d > Val(item.interval.end_date)

(* C8: interval bounds.  On a day before its start_date or after its
   end_date the processing of an item, of whatever interval, is no
   transaction: account_balance, the ledger and every field of every item
   but the item's done flag are unchanged, and after its end_date the item
   is done.  On its end_date itself a live item still fires: a row for that
   day is written. *)
IntervalBounds ==
    [][(status = "running" /\ cur_date < end_date)
       => /\ (Early(config[pos], cur_date) \/ Late(config[pos], cur_date))
             => /\ status' = "running"
                /\ account_balance' = account_balance
                /\ csv_file' = csv_file
                /\ \A j \in 1..Len(config) :
                      config'[j] = [config[j] EXCEPT !.done = config'[j].done]
                /\ \A j \in 1..Len(config) : j # pos => config'[j] = config[j]
                /\ Late(config[pos], cur_date) => config'[pos].done
          /\ (/\ config[pos].interval.end_date = Some(cur_date)
              /\ ~Early(config[pos], cur_date)
              /\ ~config[pos].done
              /\ status' = "running"
              /\ \/ /\ config[pos].interval.kind = "OnetimeInterval"
                    /\ config[pos].interval.target = ""
                 \/ /\ config[pos].interval.kind # "OnetimeInterval"
                    /\ Matches(config[pos].interval, cur_date)
                    /\ config[pos].amount > 0
                    /\ config[pos].remaining_balance = None)
             => /\ Len(csv_file') = Len(csv_file) + 1
                /\ csv_file'[Len(csv_file')].name = DisplayName(config[pos].name)
                /\ csv_file'[Len(csv_file')].date = DateStr(cur_date)]_vars

(* C8's case: a recurring item with bounds of its own (2024-01-30 to
   2024-02-02) that has no row before its start_date, has a row on its
   end_date, and was marked done on the day after. *)
IntervalBoundsWitness ==
    \E j \in 1..Len(config) :
        /\ config[j].interval.kind # "OnetimeInterval"
        /\ config[j].interval.start_date = Some(1)
        /\ config[j].interval.end_date = Some(4)
        /\ done_on[j] = Some(5)
        /\ \E r \in Rows : r.name = DisplayName(config[j].name) /\ r.date = DateStr(4)
        /\ \A r \in Rows : r.name = DisplayName(config[j].name) => RowDay(r) \in 1..4

(* What the processing of the recurring item config[pos] does when the item
   is an EXPENSE without a remaining_balance: on a day within its bounds on
   which its recurrence matches, one row for that day and the item, and
   account_balance lower by amount (below 0 if need be); on any other day
   no row and the same account_balance; and the item is not done after the
   step unless its end_date has passed. *)
RecurringExpenseStep ==
    LET item == config[pos]
        fires == ~Early(item, cur_date) /\ ~Late(item, cur_date)
                    /\ Matches(item.interval, cur_date)
    IN /\ status' = "running"
       /\ fires => /\ account_balance' = account_balance - item.amount
                   /\ Len(csv_file') = Len(csv_file) + 1
                   /\ SubSeq(csv_file', 1, Len(csv_file)) = csv_file
                   /\ csv_file'[Len(csv_file')].name = DisplayName(item.name)
                   /\ csv_file'[Len(csv_file')].date = DateStr(cur_date)
                   /\ csv_file'[Len(csv_file')].note = ""
       /\ ~fires => account_balance' = account_balance /\ csv_file' = csv_file
       /\ ~Late(item, cur_date) => ~config'[pos].done
       /\ config'[pos].amount = item.amount

IsRecurringExpense(item) ==
    /\ item.type = EXPENSE
    /\ item.remaining_balance = None
    /\ item.interval.kind # "OnetimeInterval"

(* C9 as stated: every recurring EXPENSE with no remaining_balance fires on
   each day of the run within its bounds on which its recurrence matches,
   with exactly one row per such day and none on other days, lowers
   account_balance by amount each time (to 0 and below), and is not marked
   done while its end_date has not passed. *)
RecurringExpenseAnyAmount ==
    [][(status = "running" /\ cur_date < end_date /\ IsRecurringExpense(config[pos]))
       => RecurringExpenseStep]_vars

(* C9, amended: the same for a recurring EXPENSE whose amount is > 0. *)
RecurringExpense ==
    [][(/\ status = "running" /\ cur_date < end_date
        /\ IsRecurringExpense(config[pos])
        /\ config[pos].amount > 0)
       => RecurringExpenseStep]_vars

(* C9's case: rent, paid 4.00 a day from an account of 8.00, has three rows
   in a row that leave 4.00, 0.00 (written as an empty field) and -4.00 on
   the account, and is not done at the end of the run. *)
RecurringExpenseWitness ==
    /\ status = "finished"
    /\ \E j \in 1..Len(config) :
          /\ config[j].name = "rent"
          /\ IsRecurringExpense(config[j])
          /\ config[j].amount = 400
          /\ ~config[j].done
    /\ \E k \in 1..Len(csv_file) :
          /\ k + 2 <= Len(csv_file)
          /\ \A n \in 0..2 : csv_file[k + n].name = "Rent"
          /\ csv_file[k].account_balance = "4.00"
          /\ csv_file[k + 1].account_balance = ""
          /\ csv_file[k + 2].account_balance = "-4.00"

(* calculate_generic on Scenario B: a loan of 1000.00 paid 200.00 a month at
   5 percent *)
ScenarioB ==
    LET loan == BudgetItem("car_loan", MonthlyInterval(None, None, 1), EXPENSE,
                           20000, 0, 5, 0, Some(100000), "")
        m == [config |-> <<loan>>, account_balance |-> 0, csv_row |-> EmptyDict,
              csv_file |-> <<>>, raised |-> ""]
    IN calculate_generic(m, 1)

(* C10: the generic firing of an amortizing EXPENSE.  With a the smaller of
   amount and remaining_balance, a > 0, and i = a * rate (0 when the rate is
   0), the firing takes a off account_balance, adds a to total_paid and i to
   interest_paid, and takes a - i off remaining_balance, or, when a < amount
   (the final payment), sets remaining_balance to 0.  Remaining 1000.00,
   amount 200.00 and rate 5 percent give interest 10.00, remaining 810.00
   and total_paid 200.00. *)
AmortizingFiring ==
    [][/\ (/\ GenericFiring
           /\ config[pos].type = EXPENSE
           /\ config[pos].remaining_balance # None
           /\ config[pos].amount > 0
           /\ Val(config[pos].remaining_balance) > 0)
          => LET item == config[pos]
                 rb == Val(item.remaining_balance)
                 a == IF item.amount <= rb THEN item.amount ELSE rb
                 i == IF item.interest = 0 THEN 0 ELSE (a * item.interest) \div 100
             IN /\ account_balance' = account_balance - a
                /\ config'[pos].total_paid = item.total_paid + a
                /\ config'[pos].interest_paid = item.interest_paid + i
                /\ config'[pos].remaining_balance =
                      IF a < item.amount THEN Some(0) ELSE Some(rb - (a - i))
       /\ ScenarioB.config[1].interest_paid = 1000
       /\ ScenarioB.config[1].remaining_balance = Some(81000)
       /\ ScenarioB.config[1].total_paid = 20000
       /\ ScenarioB.account_balance = 0 - 20000]_vars

(* C10's case: a loan of 12.00 at 50 percent paid 4.00 a day: the first
   firing paid 2.00 of interest and left 10.00, and the loan is now paid
   off, at exactly 0, by a final payment smaller than its amount. *)
AmortizingFiringWitness ==
    \E j \in 1..Len(config) :
        /\ config[j].type = EXPENSE
        /\ config[j].interest = 50
        /\ config[j].amount = 400
        /\ config[j].remaining_balance = Some(0)
        /\ config[j].done
        /\ config[j].total_paid % 400 # 0
        /\ \E r \in Rows :
              /\ r.name = DisplayName(config[j].name)
              /\ r.amount = "4.00"
              /\ r.remaining = "10.00"
              /\ r.total_paid = "4.00"
              /\ r.total_interest = "2.00"

----------------------------------------------------------------------------
(* Dangling references *)

(* The pass is that of a one-time item whose target names no item. *)
DanglingTargetFiring ==
    /\ status = "running" /\ cur_date < end_date
    /\ ~Item.done
    /\ ~Expired(Item, cur_date)
    /\ date_in_range(Item, cur_date)
    /\ Item.interval.kind = "OnetimeInterval"
    /\ Item.interval.target # ""
    /\ Lookup(config, Item.interval.target) = 0

(* The run aborts at the firing of a one-time item with a dangling target,
   the account and every item as they were. *)
DanglingTargetAborts ==
    [][DanglingTargetFiring =>
          /\ status' = "raised"
          /\ account_balance' = account_balance
          /\ config' = config]_vars

(* In the step the remaining_balance of EXPENSE item j reaches <= 0 from
   above, and the item's move_payment_to names no item. *)
DanglingPayoff(j) ==
    /\ config[j].type = EXPENSE
    /\ config[j].remaining_balance # None
    /\ Val(config[j].remaining_balance) > 0
    /\ Val(config'[j].remaining_balance) <= 0
    /\ config[j].move_payment_to # ""
    /\ Lookup(config, config[j].move_payment_to) = 0

(* The same, for the payoffs of the item's own generic firings *)
DanglingOwnPayoffAborts ==
    [][(DanglingPayoff(pos) /\ Item.interval.kind # "OnetimeInterval")
          => status' = "raised"]_vars

(* A run that raised processes nothing more. *)
RaisedIsFinal == [][status = "raised" => UNCHANGED vars]_vars

(* C11: a dangling reference is run-fatal.  The firing of a one-time item
   whose target names no item aborts the run with account_balance and every
   item unchanged; when the remaining_balance of an EXPENSE whose
   move_payment_to names no item reaches <= 0, the run aborts at that
   payoff; and an aborted run processes no later day. *)
DanglingReferenceFatal ==
    [][/\ DanglingTargetFiring =>
             /\ status' = "raised"
             /\ account_balance' = account_balance
             /\ config' = config
       /\ \A j \in 1..Len(config) : DanglingPayoff(j) => status' = "raised"
       /\ status # "raised"]_vars

----------------------------------------------------------------------------
(* Done items *)

(* The done flag is never cleared. *)
DoneIsMonotonic ==
    [][\A j \in 1..Len(config) : config[j].done => config'[j].done]_vars

(* C12: once an item's done flag is true it never becomes false again, and
   no later step changes the item's total_paid, interest_paid,
   remaining_balance or amount, be it a targeted one-time payment aimed at
   the item or a payoff chain whose move_payment_to names it. *)
DoneIsFrozen ==
    [][\A j \in 1..Len(config) :
          config[j].done =>
             /\ config'[j].done
             /\ config'[j].total_paid = config[j].total_paid
             /\ config'[j].interest_paid = config[j].interest_paid
             /\ config'[j].remaining_balance = config[j].remaining_balance
             /\ config'[j].amount = config[j].amount]_vars

(* The one-time item config[pos] fires, its target names config[t] and
   config[t] has a remaining_balance after the payment. *)
TargetPaid(t) ==
    /\ OnetimeFiring
    /\ config[pos].interval.target = config[t].name
    /\ config'[t].remaining_balance # None

(* A target whose remaining_balance a one-time payment leaves below 0 is
   marked done in that step. *)
OverpaidTargetIsDone ==
    [][\A t \in 1..Len(config) : (TargetPaid(t) /\ Val(config'[t].remaining_balance) < 0) => config'[t].done]_vars

(* C13: after a targeted one-time payment, a target whose remaining_balance
   is now <= 0, exactly 0 included, is marked done in that same step. *)
PaidOffTargetIsDone ==
    [][\A t \in 1..Len(config) : (TargetPaid(t) /\ Val(config'[t].remaining_balance) <= 0) => config'[t].done]_vars

----------------------------------------------------------------------------
(* The payoff chain after one-time payments *)

(* Item t is an EXPENSE that started with a positive remaining_balance,
   received a targeted one-time payment and now has a remaining_balance
   <= 0; its move_payment_to names item d, whose remaining_balance is still
   positive (so it was positive whenever t was paid). *)
ChainDue(t, d) ==
    /\ config[t].type = EXPENSE
    /\ opening_config[t].remaining_balance # None
    /\ Val(opening_config[t].remaining_balance) > 0
    /\ Val(config[t].remaining_balance) <= 0
    /\ \E r \in Rows :
          /\ r.name = DisplayName(config[t].name)
          /\ \E o \in 1..Len(config) : r.note = "onetime payment: " \o config[o].name
    /\ config[t].move_payment_to = config[d].name
    /\ config[d].remaining_balance # None
    /\ Val(config[d].remaining_balance) > 0

(* C14: the payoff chain resolver runs after one-time firings too.  When a
   targeted one-time payment has brought the remaining_balance of an EXPENSE
   target to <= 0 and the target's move_payment_to names an item with a
   positive remaining_balance, the amount of that item has been increased by
   the target's amount by the end of the run at the latest. *)
ChainAfterOnetime ==
    status = "finished" =>
        \A t, d \in 1..Len(config) :
            ChainDue(t, d) => config[d].amount >= opening_config[d].amount + config[t].amount

----------------------------------------------------------------------------
(* The order of the items within a day *)

(* row r of the ledger was written today for the item called name *)
TodayRow(r, name) == r.date = DateStr(cur_date) /\ r.name = DisplayName(name)

(* The collection holds the income items before the expense items, and a
   pass neither reorders nor renames nor retypes the items. *)
FixedOrder ==
    /\ \A j, k \in 1..Len(config) :
          (j < k /\ config[j].type = EXPENSE) => config[k].type = EXPENSE
    /\ Len(config') = Len(config)
    /\ \A j \in 1..Len(config) :
          config'[j].name = config[j].name /\ config'[j].type = config[j].type

(* A pass is followed by the pass of the next item on the same day, the
   pass of the last item by that of the first item on the next day. *)
InOrder ==
    Pass => \/ pos < Len(config) /\ pos' = pos + 1 /\ cur_date' = cur_date
            \/ pos = Len(config) /\ pos' = 1 /\ cur_date' = cur_date + 1

(* Item a, the only item whose move_payment_to names item b, was paid off
   earlier today and raised b's amount; b, later in the order, fires now:
   it pays the raised amount, capped by its remaining_balance. *)
ChainSeenAfter(a, b) ==
    (/\ GenericFiring
     /\ pos = b
     /\ a < b
     /\ config[a].move_payment_to = config[b].name
     /\ \A x \in 1..Len(config) : x # a => config[x].move_payment_to # config[b].name
     /\ \E r \in Rows :
           /\ TodayRow(r, config[a].name)
           /\ r.note = "balance closed. move_payment_to: " \o config[b].name)
    => /\ config[b].amount = opening_config[b].amount + config[a].amount
       /\ config'[b].total_paid = config[b].total_paid + EffectiveAmount(config[b])

(* Item a is paid off now and raises the amount of item b, which comes
   earlier in the order and fired today: b's row of today carries the
   amount from before the change, and b's total_paid is not touched. *)
ChainNotSeenBefore(a, b) ==
    (/\ GenericFiring
     /\ pos = a
     /\ b < a
     /\ config[a].move_payment_to = config[b].name
     /\ config'[b].amount = config[b].amount + config[a].amount
     /\ config[b].amount = opening_config[b].amount
     /\ \E r \in Rows : TodayRow(r, config[b].name) /\ r.note = "")
    => /\ \A r \in Rows :
             (TodayRow(r, config[b].name) /\ r.note = "")
                 => r.amount = Fmt2(opening_config[b].amount)
       /\ config'[b].total_paid = config[b].total_paid

(* The one-time item a paid item b earlier today; b, later in the order,
   fires now: the remaining_balance it pays from is the one the one-time
   payment left. *)
PaymentSeenAfter(a, b) ==
    (/\ GenericFiring
     /\ pos = b
     /\ a < b
     /\ config[b].remaining_balance # None
     /\ config[a].interval.kind = "OnetimeInterval"
     /\ config[a].interval.target = config[b].name
     /\ done_on[a] = Some(cur_date)
     /\ \E r \in Rows :
           /\ TodayRow(r, config[b].name)
           /\ r.note = "onetime payment: " \o config[a].name)
    => /\ \A r \in Rows :
             (/\ TodayRow(r, config[b].name)
              /\ r.note = "onetime payment: " \o config[a].name)
             => r.remaining = FixField(config[b].remaining_balance)
       /\ config'[b].total_paid =
             config[b].total_paid +
               (IF EffectiveAmount(config[b]) > 0 THEN EffectiveAmount(config[b]) ELSE 0)

(* The one-time item a pays item b now; b comes earlier in the order and
   fired today: b's row of today carries the remaining_balance from before
   the payment, which the payment now lowers. *)
PaymentNotSeenBefore(a, b) ==
    (/\ OnetimeFiring
     /\ pos = a
     /\ b < a
     /\ config[a].interval.target = config[b].name
     /\ config[b].type = EXPENSE
     /\ config[b].remaining_balance # None
     /\ Val(config[b].remaining_balance) > 0
     /\ \E r \in Rows : TodayRow(r, config[b].name) /\ r.note = "")
    => /\ \A r \in Rows :
             (TodayRow(r, config[b].name) /\ r.note = "")
                 => r.remaining = FixField(config[b].remaining_balance)
       /\ config'[b].remaining_balance =
             Some(Val(config[b].remaining_balance) - config[a].amount)

(* C15: same-day ordering.  Within a day the items are processed in the
   fixed order of the collection, income items before expense items.  When
   the firing of item a changes item b on a day (a payoff chain raising
   b.amount, a targeted one-time payment lowering b.remaining_balance), b's
   own firing on that day uses the changed value if b comes after a in the
   order and the value from before the change if b comes before a. *)
SameDayOrdering ==
    [][/\ FixedOrder
       /\ InOrder
       /\ \A a, b \in 1..Len(config) :
             /\ ChainSeenAfter(a, b)
             /\ ChainNotSeenBefore(a, b)
             /\ PaymentSeenAfter(a, b)
             /\ PaymentNotSeenBefore(a, b)]_vars

(* C15's case: car_loan, ahead of card in the order, was paid off and moved
   its payment to card, and card's own firing of the same day paid the
   raised amount of 8.00 (card is configured with an amount of at most
   4.00). *)
SameDayOrderingWitness ==
    \E k1, k2 \in 1..Len(csv_file) :
        /\ k1 < k2
        /\ csv_file[k1].date = csv_file[k2].date
        /\ csv_file[k1].name = "Car Loan"
        /\ csv_file[k1].note = "balance closed. move_payment_to: card"
        /\ csv_file[k2].name = "Card"
        /\ csv_file[k2].note = ""
        /\ csv_file[k2].amount = "8.00"

----------------------------------------------------------------------------
(* Firings without a transaction *)

(* The pass is that of a live recurring item on a day within its bounds on
   which its recurrence matches. *)
RecurringMatch ==
    /\ status = "running" /\ cur_date < end_date
    /\ ~Item.done
    /\ ~Expired(Item, cur_date)
    /\ date_in_range(Item, cur_date)
    /\ Item.interval.kind # "OnetimeInterval"
    /\ Matches(Item.interval, cur_date)

(* C16: when the interval of a recurring item matches and its effective
   amount (its amount, capped by its remaining_balance if it has one) is
   <= 0, there is no transaction: account_balance and the item's total_paid,
   interest_paid and remaining_balance are unchanged and no row is written,
   also when the item is marked done in that step. *)
NoTransaction ==
    [][(RecurringMatch /\ EffectiveAmount(Item) <= 0)
          => /\ account_balance' = account_balance
             /\ config'[pos].total_paid = config[pos].total_paid
             /\ config'[pos].interest_paid = config[pos].interest_paid
             /\ config'[pos].remaining_balance = config[pos].remaining_balance
             /\ csv_file' = csv_file]_vars

(* C16's case: a run is over in which a daily item with a positive amount
   and a remaining_balance of 0 was marked done on its first day, without a
   payment and without a row, while another item paid. *)
NoTransactionWitness ==
    /\ status = "finished"
    /\ \E j \in 1..Len(config) :
          /\ config[j].interval.kind = "DailyInterval"
          /\ config[j].interval.start_date = Some(start_date)
          /\ config[j].amount > 0
          /\ opening_config[j].remaining_balance = Some(0)
          /\ done_on[j] = Some(start_date)
          /\ config[j].total_paid = 0
          /\ \A r \in Rows : r.name # DisplayName(config[j].name)
    /\ csv_file # <<>>

----------------------------------------------------------------------------
(* Error states *)

(* Every target and every move_payment_to that is set names an item. *)
ReferencesResolve ==
    \A j \in 1..Len(config) :
        /\ config[j].interval.target # "" => Lookup(config, config[j].interval.target) # 0
        /\ config[j].move_payment_to # "" => Lookup(config, config[j].move_payment_to) # 0

(* With every reference resolved, the only exception run raises is the
   KeyError of check_if_done. *)
OnlyKeyError == (ReferencesResolve /\ status = "raised") => raised = "KeyError"

(* C17: when every target and every move_payment_to names an existing item
   (the intervals of the model are all of the six variants), run never
   reaches an error state; in particular the payoff check does not fail on
   a day on which the item did not fire and its remaining_balance is
   already <= 0. *)
NoErrorState == ReferencesResolve => status # "raised"

----------------------------------------------------------------------------
(* Amortization *)

(* The number of generic firings that pay off a remaining_balance rb at
   amount a firing and an interest of rate percent *)
RECURSIVE FiringsNeeded(_, _, _)
FiringsNeeded(rb, amount, rate) ==
    IF rb <= 0 THEN 0
    ELSE IF amount > rb THEN 1
    ELSE 1 + FiringsNeeded(rb - amount + (amount * rate) \div 100, amount, rate)

(* The days of the run within the item's bounds on which its recurrence
   matches *)
MatchingDays(item) ==
    {d \in start_date..(end_date - 1) :
        date_in_range(item, d) /\ Matches(item.interval, d)}

(* config[j] is a recurring EXPENSE that started with a positive amount, a
   positive remaining_balance and an interest rate below 1 *)
Amortizing(j) ==
    /\ config[j].type = EXPENSE
    /\ config[j].interval.kind # "OnetimeInterval"
    /\ opening_config[j].amount > 0
    /\ opening_config[j].remaining_balance # None
    /\ Val(opening_config[j].remaining_balance) > 0
    /\ config[j].interest >= 0
    /\ config[j].interest < 100

(* A generic firing of such an item with a positive remaining_balance
   strictly decreases remaining_balance, to no less than 0; at a
   remaining_balance equal to amount and r > 0 it leaves the positive
   residue amount * r and the item live; at a remaining_balance below amount
   it is the final payment: it pays what remains, leaves 0 and marks the
   item done. *)
AmortizingStep ==
    (/\ GenericFiring
     /\ Amortizing(pos)
     /\ Val(config[pos].remaining_balance) > 0)
    => /\ Val(config'[pos].remaining_balance) < Val(config[pos].remaining_balance)
       /\ Val(config'[pos].remaining_balance) >= 0
       /\ (Val(config[pos].remaining_balance) = config[pos].amount
            /\ config[pos].interest > 0)
          => /\ Val(config'[pos].remaining_balance) * 100 =
                   config[pos].amount * config[pos].interest
             /\ Val(config'[pos].remaining_balance) > 0
             /\ Val(config'[pos].remaining_balance) < config[pos].amount
             /\ ~config'[pos].done
       /\ Val(config[pos].remaining_balance) < config[pos].amount
          => /\ config'[pos].total_paid =
                   config[pos].total_paid + Val(config[pos].remaining_balance)
             /\ config'[pos].remaining_balance = Some(0)
             /\ config'[pos].done
       /\ config'[pos].done <=> Val(config'[pos].remaining_balance) = 0

(* config[j] has as many matching days in range as its payoff takes
   firings *)
EnoughMatchingDays(j) ==
    Cardinality(MatchingDays(config[j])) >=
        FiringsNeeded(Val(opening_config[j].remaining_balance),
                      opening_config[j].amount, config[j].interest)

(* no one-time item names config[j] as its target *)
Untargeted(j) ==
    \A o \in 1..Len(config) : config[o].interval.target # config[j].name

(* The firings are as AmortizingStep says, and an item that no one-time
   item targets and that has enough matching days in range has
   remaining_balance = 0 and done = true when the run ends. *)
UntargetedAmortizationConverges ==
    [][/\ AmortizingStep
       /\ status' = "finished"
          => \A j \in 1..Len(config) :
                (Amortizing(j) /\ Untargeted(j) /\ EnoughMatchingDays(j))
                => config[j].remaining_balance = Some(0) /\ config[j].done]_vars

(* C18: for an EXPENSE with amount > 0, a positive remaining_balance and an
   interest rate r with 0 <= r < 1, every generic firing strictly decreases
   remaining_balance, so given enough matching days in range the item has
   reached remaining_balance = 0 and done = true when the run ends; the
   firing at which remaining_balance equals amount with r > 0 leaves the
   positive residue amount * r, which the next firing clears as the final
   payment. *)
AmortizationConverges ==
    [][/\ AmortizingStep
       /\ status' = "finished"
          => \A j \in 1..Len(config) :
                (Amortizing(j) /\ EnoughMatchingDays(j))
                => config[j].remaining_balance = Some(0) /\ config[j].done]_vars

----------------------------------------------------------------------------
(* The days of a run *)

(* The passes a run that is not cut short has yet to make *)
PassesLeft == (end_date - cur_date) * Len(config) - (pos - 1)

(* the calendar days d with first <= d < last, in increasing order *)
DaysFrom(first, last) ==
    [n \in 1..(IF last > first THEN last - first ELSE 0) |-> first + (n - 1)]

(* C19: run terminates after visiting each calendar day d with
   start_date <= d < end_date exactly once, in increasing order; end_date
   itself is never processed and an empty or reversed range processes no
   day; the run goes on to the end of the range when every item is done
   and stops there when items are not done.  A step of a run is the pass of
   an item on a day of the range, which leaves one pass less to make, or
   the end of the run, when the days visited are all the days of the
   range. *)
DayLoop ==
    [][/\ status = "running"
       /\ IF status' = "finished"
          THEN /\ days = DaysFrom(start_date, end_date)
               /\ start_date >= end_date => config = opening_config /\ csv_file = <<>>
               /\ UNCHANGED <<config, account_balance, csv_file, days>>
          ELSE /\ start_date <= cur_date
               /\ cur_date < end_date
               /\ days' = DaysFrom(start_date, cur_date + 1)
               /\ \A k \in (Len(csv_file) + 1)..Len(csv_file') :
                     csv_file'[k].date = DateStr(cur_date)
               /\ status' = "running"
                  => /\ PassesLeft' = PassesLeft - 1
                     /\ PassesLeft' >= 0]_vars

(* C19's case: a run over the nine days of its range is over; its items
   were all done by the second day, and the loop went on to visit every day
   before end_date. *)
DayLoopWitness ==
    /\ status = "finished"
    /\ start_date < end_date
    /\ Len(days) = MaxDays
    /\ days[Len(days)] = end_date - 1
    /\ Len(config) > 1
    /\ csv_file # <<>>
    /\ \A j \in 1..Len(config) :
          /\ config[j].done
          /\ done_on[j] # None
          /\ Val(done_on[j]) <= start_date + 1

====
